---- MODULE Spec2Model ----
(***************************************************************************)
(* SMS Control Tower: the campaign dispatch worker, the compliance gate,   *)
(* the suppression store and the carrier status reconciliation, modelled   *)
(* from backend/app/workers/message_tasks.py,                              *)
(* backend/app/services/compliance_service.py and                          *)
(* backend/app/api/v1/{webhooks,compliance}.py.                            *)
(*                                                                         *)
(* The database is modelled as sequences of rows (the row id is the index) *)
(* and every commit is atomic.  A handler that awaits between a read and   *)
(* the write that depends on it is split at that await, so that other      *)
(* workers can run in between.  Text (message bodies, phone numbers) is    *)
(* modelled as TLA+ strings and handled character by character.            *)
(*                                                                         *)
(* The worker addresses Message.provider_sid / from_number / to_number,    *)
(* PhoneNumber.e164 / mps, and the HTTP handlers address                   *)
(* Message.twilio_message_sid: both name the carrier message id and the    *)
(* sending number, and are modelled as one field each.                     *)
(***************************************************************************)
EXTENDS Integers, Sequences, FiniteSets, TLC

(***************************************************************************)
(* Bounds of the model.                                                    *)
(***************************************************************************)
MaxTime == 2         \* unit ticks of the clock (seconds)
MaxTasks == 4        \* dispatch tasks ever enqueued (first runs and retries)
MaxSupp == 3         \* rows of the suppressions table
MaxInbound == 2      \* inbound messages received
MaxCallbacks == 2    \* carrier status callbacks delivered
MaxRedeliver == 1    \* times the broker delivers one task again
MaxMps == 2          \* largest rate_limit_mps of a sending number
MaxWebhooks == 3      \* process_twilio_webhook tasks enqueued
MaxBeats == 2         \* runs of the periodic status sweep
MaxUsage == 1         \* times the usage of one template is tracked
QuietFrom == 1       \* second of the clock at which quiet hours begin

(***************************************************************************)
(* Program constants.                                                      *)
(***************************************************************************)
TaskMaxRetries == 3      \* @celery_app.task(bind=True, max_retries=3)
BackoffBase == 60        \* countdown=60 * (2 ** task.request.retries)
RateWindow == 1          \* timedelta(seconds=1)
RateSpread == 60         \* 60 // phone_number.mps
HealthFloor == 50        \* PhoneNumber.health_score > 50
TargetMaxRetries == 3    \* CampaignTarget.max_retries, default=3
RetryMaxAge == 86400     \* max_age_hours: int = 24
SweepCutoff == 300       \* timedelta(minutes=5)
SweepPeriod == 300       \* 'schedule': 300.0
HealthyFloor == 70       \* PhoneNumber.is_healthy: health_score >= 70

(***************************************************************************)
(* Text.                                                                   *)
(***************************************************************************)
Chars(s) == [i \in 1..Len(s) |-> SubSeq(s, i, i)]

RECURSIVE Join(_)
Join(cs) == IF cs = <<>> THEN "" ELSE Head(cs) \o Join(Tail(cs))

UpperCase == Chars("ABCDEFGHIJKLMNOPQRSTUVWXYZ")
LowerCase == Chars("abcdefghijklmnopqrstuvwxyz")
Digits == {"0", "1", "2", "3", "4", "5", "6", "7", "8", "9"}
Whitespace == {" "}

\* str.lower(), on a sequence of characters
lower(cs) ==
    [i \in 1..Len(cs) |->
        IF \E k \in 1..Len(UpperCase) : UpperCase[k] = cs[i]
        THEN LowerCase[CHOOSE k \in 1..Len(UpperCase) : UpperCase[k] = cs[i]]
        ELSE cs[i]]

\* str.strip(), on a sequence of characters
strip(cs) ==
    LET keep == {i \in 1..Len(cs) : cs[i] \notin Whitespace}
    IN IF keep = {} THEN <<>>
       ELSE LET lo == CHOOSE i \in keep : \A j \in keep : i <= j
                hi == CHOOSE i \in keep : \A j \in keep : j <= i
            IN SubSeq(cs, lo, hi)

\* Python's `kw in s` on strings: kw occurs in s as a substring
contains(kw, cs) ==
    \E i \in 1..(Len(cs) - Len(kw) + 1) : SubSeq(cs, i, i + Len(kw) - 1) = kw

(***************************************************************************)
(* ComplianceService._normalize_phone_number                               *)
(***************************************************************************)
_normalize_phone_number(phone_number) ==
    LET digits == SelectSeq(Chars(phone_number), LAMBDA c : c \in Digits)
    IN IF phone_number = "" THEN ""
       ELSE IF digits = <<>> THEN phone_number
       ELSE IF Len(digits) = 10 THEN "+1" \o Join(digits)
       ELSE IF Len(digits) = 11 /\ Head(digits) = "1" THEN "+" \o Join(digits)
       ELSE IF Head(Chars(phone_number)) = "+" THEN "+" \o Join(digits)
       ELSE "+" \o Join(digits)

(***************************************************************************)
(* STOP / HELP keyword classification, on the two inbound paths.           *)
(***************************************************************************)
service_stop_keywords == {"stop", "alto", "quit", "cancel", "end", "unsubscribe"}
service_help_keywords == {"help", "ayuda", "info", "information"}
webhook_stop_keywords ==
    {"stop", "alto", "quit", "cancel", "end", "unsubscribe", "stopall"}
webhook_help_keywords == {"help", "ayuda", "info", "information"}

\* process_stop_keyword: any(keyword in message_content.lower().strip())
service_matches(keywords, message_content) ==
    LET message_lower == strip(lower(Chars(message_content)))
    IN \E keyword \in keywords : contains(Chars(keyword), message_lower)

\* twilio_inbound_message: Body.strip().lower() in [kw.lower() for kw in ...]
webhook_matches(keywords, body) ==
    LET b == lower(strip(Chars(body)))
    IN \E kw \in keywords : b = lower(Chars(kw))

(***************************************************************************)
(* The data.                                                               *)
(***************************************************************************)
OrgId == "org1"              \* the campaign's organization
NoOrg == "NULL"              \* organization_id IS NULL
TargetIds == {"t1", "t2"}
NumberIds == {"n1"}
TemplateIds == {"tpl1"}
DestPhone == [t \in TargetIds |->
                 IF t = "t1" THEN "+15125550111" ELSE "+15125550112"]
PoolNumberIds == {"n1", "n2"}    \* a pool of two sending numbers
NumberE164 == [n \in PoolNumberIds |->
                  IF n = "n1" THEN "+15125550100" ELSE "+15125550101"]

TargetStatuses ==
    {"queued", "sending", "sent", "delivered", "failed", "suppressed",
     "rescheduled"}
TerminalCarrierStatuses == {"delivered", "undelivered", "failed"}

VARIABLES
    campaign,       \* the campaigns row of the campaign being dispatched
    now,            \* the clock, in seconds
    targets,        \* campaign_targets: TargetIds -> row
    numbers,        \* phone_numbers: NumberIds -> row
    templates,      \* templates: TemplateIds -> row
    suppressions,   \* suppressions table, a sequence of rows
    messages,       \* messages table (outbound), a sequence of rows
    events,         \* message_status_events table, a sequence of rows
    tasks,          \* send_campaign_message tasks: queued, running and ended
    carrier,        \* what the carrier gateway was asked to send
    inbound,        \* inbound messages: in process and processed
    callbacks,      \* status callbacks delivered, with what each one did
    webhooks        \* process_twilio_webhook tasks, each with its WebhookLog

vars == <<campaign, now, targets, numbers, templates, suppressions, messages,
          events, tasks, carrier, inbound, callbacks, webhooks>>

(***************************************************************************)
(* Suppression store: ComplianceService and the HTTP opt-out handlers.     *)
(***************************************************************************)
\* the WHERE clause of is_suppressed and of get_active_opt_out
_active_rows(phone_number, org_id) ==
    LET normalized == _normalize_phone_number(phone_number)
    IN {k \in DOMAIN suppressions :
          /\ \/ suppressions[k].phone_number = normalized
             \/ suppressions[k].normalized_phone = normalized
             \/ suppressions[k].phone_number = phone_number
          /\ suppressions[k].organization_id = org_id
          /\ suppressions[k].is_active}

\* result.scalar_one_or_none() raises MultipleResultsFound on two rows
MultipleResultsFound(rows) == Cardinality(rows) > 1

is_suppressed(phone_number, org_id) == _active_rows(phone_number, org_id) # {}

get_active_opt_out(phone_number, org_id) == _active_rows(phone_number, org_id)

\* the row add_to_suppression inserts
new_suppression(phone_number, org_id, source) ==
    LET normalized_phone == _normalize_phone_number(phone_number)
        stored == IF normalized_phone # "" THEN normalized_phone
                  ELSE phone_number
    IN [phone_number |-> stored, normalized_phone |-> stored,
        organization_id |-> org_id, reason |-> "opt_out", source |-> source,
        is_active |-> TRUE]

\* the row twilio_inbound_message and add_opt_out insert
raw_suppression(phone, source, reason) ==
    [phone_number |-> phone, normalized_phone |-> phone,
     organization_id |-> NoOrg, reason |-> reason, source |-> source,
     is_active |-> TRUE]

\* some active suppression row blocks this number for this organization or
\* for all of them (what the store holds, however the code queries it)
ActiveSuppression(phone, orgs) ==
    \E k \in DOMAIN suppressions :
        /\ suppressions[k].is_active
        /\ suppressions[k].organization_id \in orgs
        /\ _normalize_phone_number(suppressions[k].phone_number)
              = _normalize_phone_number(phone)

(***************************************************************************)
(* Phone pool and rate limit: message_tasks.py helpers.                    *)
(***************************************************************************)
\* PhoneNumber.daily_limit IS NULL: no daily cap
NoLimit == -1

\* PhoneNumber.can_send_message: the daily cap is not reached
can_send_message(row) ==
    IF row.daily_limit = NoLimit THEN TRUE
    ELSE row.current_daily_count < row.daily_limit

\* PATCH /phone-numbers/{number_id}/settings with daily_limit
update_number_settings(n, daily_limit) ==
    /\ numbers[n].daily_limit # daily_limit
    /\ numbers' = [numbers EXCEPT ![n].daily_limit = daily_limit]
    /\ UNCHANGED <<webhooks,
                   campaign, now, targets, templates, suppressions, messages,
                   events, tasks, carrier, inbound, callbacks>>

\* rows the query of _get_available_phone_number selects, before its
\* ORDER BY last_used_at ASC NULLS FIRST LIMIT 1
eligible_numbers(org_id) ==
    {n \in DOMAIN numbers :
        /\ numbers[n].organization_id = org_id
        /\ numbers[n].status = "active"
        /\ numbers[n].health_score > HealthFloor}

\* last_used_at = -1 stands for NULL, which sorts first
_get_available_phone_number(org_id) ==
    {n \in eligible_numbers(org_id) :
        \A o \in eligible_numbers(org_id) :
            numbers[n].last_used_at <= numbers[o].last_used_at}

recent_messages(n) ==
    {m \in DOMAIN messages :
        /\ messages[m].from_number = NumberE164[n]
        /\ messages[m].created_at >= now - RateWindow
        /\ messages[m].status \in {"queued", "sent"}}

_can_send_now(n) == Cardinality(recent_messages(n)) < numbers[n].mps

_calculate_rate_limit_delay(n) == RateSpread \div numbers[n].mps

\* Campaign.template_category or "initial"
template_category == "initial"

\* a row of the templates table
TemplateRow(org_id, category, is_active) ==
    [organization_id |-> org_id, category |-> category,
     is_active |-> is_active, usage_count |-> 0, last_used_at |-> -1]

\* TemplateService.select_template_for_lead: the active templates of the
\* organization and category; the code takes the first row of a query that
\* has no ORDER BY, so any of them
select_template_for_lead(org_id, category) ==
    {x \in DOMAIN templates : /\ templates[x].organization_id = org_id
                              /\ templates[x].category = category
                              /\ templates[x].is_active}

(***************************************************************************)
(* The dispatch worker: send_campaign_message and the Celery retry call.   *)
(*                                                                         *)
(* A task is pending until its eta, then runs _send_campaign_message_async *)
(* in four steps, split where the coroutine awaits the database or the     *)
(* carrier: StartAttempt (lines 42-86), CreateMessage (88-118),            *)
(* CarrierAccepts / CarrierFails (120-126, 160-169), PersistSent (128-158).*)
(* The last three fields of a task are history: what the suppressions      *)
(* table held when the task was enqueued and when it was checked; pool is  *)
(* the phone_numbers table as the task last read it; rate_number and       *)
(* recent are the number _can_send_now was asked about and the Message     *)
(* rows it counted; tpl_pool is the templates table as the task last read  *)
(* it.                                                                     *)
(***************************************************************************)
NewTask(t, retries, eta) ==
    [target |-> t, retries |-> retries, eta |-> eta, pc |-> "pending",
     from_number |-> "none", message |-> 0, sid |-> 0, result |-> "none",
     raised |-> "none", ran_at |-> -1, pool |-> numbers,
     tpl_pool |-> templates,
     rate_number |-> "none", recent |-> -1,
     enq_campaign |-> campaign.status,
     enq_org_supp |-> ActiveSuppression(DestPhone[t], {OrgId}),
     chk_org_supp |-> FALSE, chk_any_supp |-> FALSE]

\* Task.retry(countdown=...): sends the task again with retries + 1, unless
\* that exceeds max_retries; in both cases it raises (Retry or
\* MaxRetriesExceededError)
task_retry(q, i, countdown) ==
    IF q[i].retries + 1 > TaskMaxRetries THEN q
    ELSE Append(q, NewTask(q[i].target, q[i].retries + 1, now + countdown))

_update_target_status(t, status) ==
    targets' = [targets EXCEPT ![t].status = status]

Finish(q, i, result) == [q EXCEPT ![i].pc = "done", ![i].result = result]

\* lines 171-180: except Exception as e (Celery's Retry is an Exception
\* too), entered with the exception e raised after the queue became q
ExceptionHandler(q, i, e) ==
    /\ _update_target_status(q[i].target, "failed")
    /\ tasks' = [(IF q[i].retries < TaskMaxRetries
                  THEN Finish(task_retry(q, i,
                                         BackoffBase * (2 ^ q[i].retries)),
                              i, "retry")
                  ELSE Finish(q, i, "retries_exhausted"))
                    EXCEPT ![i].raised = e]
    /\ Len(tasks') <= MaxTasks

\* _is_sending_allowed_now: the quiet-hours check is a stub
_is_sending_allowed_now(t) == TRUE

\* the task with what the store held at its suppression check
Checked(q, i) ==
    [q EXCEPT ![i].ran_at = now, ![i].pool = numbers,
              ![i].chk_org_supp = ActiveSuppression(DestPhone[q[i].target],
                                                    {OrgId}),
              ![i].chk_any_supp = ActiveSuppression(DestPhone[q[i].target],
                                                    {OrgId, NoOrg})]

StartAttempt(i) ==
    /\ i \in DOMAIN tasks
    /\ tasks[i].pc = "pending"
    /\ tasks[i].eta <= now
    /\ LET t == tasks[i].target
           q == Checked(tasks, i)
           rows == _active_rows(targets[t].phone_number, OrgId)
       IN IF targets[t].status # "queued"
          THEN /\ tasks' = Finish(tasks, i, "skipped")
               /\ UNCHANGED targets
          ELSE IF MultipleResultsFound(rows)
          THEN ExceptionHandler(q, i, "MultipleResultsFound")
          ELSE IF is_suppressed(targets[t].phone_number, OrgId)
          THEN /\ _update_target_status(t, "suppressed")
               /\ tasks' = Finish(q, i, "suppressed")
          ELSE IF ~_is_sending_allowed_now(t)
          THEN ExceptionHandler(task_retry(q, i, 8 * 3600), i, "quiet_hours")
          ELSE IF _get_available_phone_number(OrgId) = {}
          THEN /\ _update_target_status(t, "failed")
               /\ tasks' = Finish(q, i, "error")
          ELSE \E n \in _get_available_phone_number(OrgId) :
                  LET r == [q EXCEPT ![i].rate_number = n,
                                     ![i].recent =
                                        Cardinality(recent_messages(n))]
                  IN IF ~_can_send_now(n)
                     THEN ExceptionHandler(
                             task_retry(r, i, _calculate_rate_limit_delay(n)),
                             i, "rate_limited")
                     ELSE /\ tasks' = [r EXCEPT ![i].pc = "checked",
                                                ![i].from_number = n]
                          /\ UNCHANGED targets
    /\ UNCHANGED <<webhooks, campaign,
                   now, numbers, templates, suppressions, messages, events,
                   carrier, inbound, callbacks>>

CreateMessage(i) ==
    /\ i \in DOMAIN tasks
    /\ tasks[i].pc = "checked"
    /\ LET t == tasks[i].target
           q == [tasks EXCEPT ![i].tpl_pool = templates]
       IN IF select_template_for_lead(OrgId, template_category) = {}
          THEN /\ _update_target_status(t, "failed")
               /\ tasks' = Finish(q, i, "error")
               /\ UNCHANGED messages
          ELSE \E tpl \in select_template_for_lead(OrgId, template_category) :
                  /\ messages' = Append(messages,
                        [campaign_target_id |-> t, template_id |-> tpl,
                         from_number |-> NumberE164[tasks[i].from_number],
                         to_number |-> targets[t].phone_number,
                         status |-> "queued", provider_sid |-> 0,
                         created_at |-> now])
                  /\ tasks' = [q EXCEPT ![i].pc = "created",
                                        ![i].message = Len(messages')]
                  /\ UNCHANGED targets
    /\ UNCHANGED <<webhooks, campaign,
                   now, numbers, templates, suppressions, events, carrier,
                   inbound, callbacks>>

\* TwilioService.send_message as the worker sees it
Submission(i, outcome) ==
    [task |-> i, target |-> tasks[i].target,
     from_number |-> NumberE164[tasks[i].from_number],
     to_number |-> targets[tasks[i].target].phone_number,
     at |-> now, outcome |-> outcome, campaign_status |-> campaign.status]

\* the carrier accepts the message and returns its sid
CarrierAccepts(i) ==
    /\ i \in DOMAIN tasks
    /\ tasks[i].pc = "created"
    /\ carrier' = Append(carrier, Submission(i, "accepted"))
    /\ tasks' = [tasks EXCEPT ![i].pc = "accepted", ![i].sid = Len(carrier')]
    /\ UNCHANGED <<webhooks, campaign,
                   now, targets, numbers, templates, suppressions, messages,
                   events, inbound, callbacks>>

\* send_message raises SMSServiceError (a carrier error or a timeout);
\* lines 160-169
CarrierFails(i) ==
    /\ i \in DOMAIN tasks
    /\ tasks[i].pc = "created"
    /\ \E outcome \in {"error", "timeout"} :
          carrier' = Append(carrier, Submission(i, outcome))
    /\ messages' = [messages EXCEPT ![tasks[i].message].status = "failed"]
    /\ targets' = [targets EXCEPT ![tasks[i].target].status = "failed"]
    /\ tasks' = Finish(tasks, i, "error")
    /\ UNCHANGED <<webhooks, campaign,
                   now, numbers, templates, suppressions, events, inbound,
                   callbacks>>

\* lines 128-158, with _track_send_for_rate_limiting
PersistSent(i) ==
    /\ i \in DOMAIN tasks
    /\ tasks[i].pc = "accepted"
    /\ messages' = [messages EXCEPT
                       ![tasks[i].message].provider_sid = tasks[i].sid,
                       ![tasks[i].message].status = "sent"]
    /\ targets' = [targets EXCEPT ![tasks[i].target].status = "sent"]
    /\ numbers' = [numbers EXCEPT ![tasks[i].from_number].last_used_at = now]
    /\ tasks' = Finish(tasks, i, "sent")
    /\ UNCHANGED <<webhooks, campaign,
                   now, templates, suppressions, events, carrier, inbound,
                   callbacks>>

\* the campaign layer enqueues the dispatch task of a queued target
EnqueueDispatch(t) ==
    /\ targets[t].status = "queued"
    /\ \A i \in DOMAIN tasks : tasks[i].target # t
    /\ Len(tasks) < MaxTasks
    /\ tasks' = Append(tasks, NewTask(t, 0, now))
    /\ UNCHANGED <<webhooks, campaign,
                   now, targets, numbers, templates, suppressions, messages,
                   events, carrier, inbound, callbacks>>

\* task_acks_late: a task that has not ended is not acknowledged, and the
\* broker delivers it again (visibility timeout, lost worker connection)
Redeliver(i) ==
    /\ i \in DOMAIN tasks
    /\ tasks[i].pc # "done"
    /\ Len(tasks) < MaxTasks
    /\ Cardinality({j \in DOMAIN tasks :
                       /\ tasks[j].target = tasks[i].target
                       /\ tasks[j].retries = tasks[i].retries}) <= MaxRedeliver
    /\ tasks' = Append(tasks, NewTask(tasks[i].target, tasks[i].retries,
                                      tasks[i].eta))
    /\ UNCHANGED <<webhooks, campaign,
                   now, targets, numbers, templates, suppressions, messages,
                   events, carrier, inbound, callbacks>>

\* the worker process dies between the commit of the Message row and the
\* commit after the carrier call (lines 118-139): nothing more is written,
\* and the task is never acknowledged
WorkerCrash(i) ==
    /\ i \in DOMAIN tasks
    /\ tasks[i].pc \in {"created", "accepted"}
    /\ tasks' = [tasks EXCEPT ![i].pc = "crashed"]
    /\ UNCHANGED <<webhooks, campaign,
                   now, targets, numbers, templates, suppressions, messages,
                   events, carrier, inbound, callbacks>>

\* the broker delivers the task of a dead worker again
RedeliverLost(i) ==
    /\ i \in DOMAIN tasks
    /\ tasks[i].pc = "crashed"
    /\ Redeliver(i)

\* POST /campaigns/{campaign_id}/pause and CampaignService.pause_campaign
pause_campaign ==
    /\ campaign' = [campaign EXCEPT !.status = "paused"]
    /\ UNCHANGED <<webhooks,
                   now, targets, numbers, templates, suppressions, messages,
                   events, tasks, carrier, inbound, callbacks>>

\* POST /campaigns/{campaign_id}/stop sets `stopped`,
\* CampaignService.stop_campaign sets `completed`
stop_campaign ==
    /\ \E status \in {"stopped", "completed"} :
          campaign' = [campaign EXCEPT !.status = status]
    /\ UNCHANGED <<webhooks,
                   now, targets, numbers, templates, suppressions, messages,
                   events, tasks, carrier, inbound, callbacks>>

\* CampaignService.resume_campaign
resume_campaign ==
    /\ campaign' = [campaign EXCEPT !.status = "active"]
    /\ UNCHANGED <<webhooks,
                   now, targets, numbers, templates, suppressions, messages,
                   events, tasks, carrier, inbound, callbacks>>

\* a second of time passes
\* TemplateService.track_template_usage
track_template_usage(template_id) ==
    /\ template_id \in DOMAIN templates
    /\ templates[template_id].usage_count < MaxUsage
    /\ templates' = [templates EXCEPT
                        ![template_id].usage_count = @ + 1,
                        ![template_id].last_used_at = now]
    /\ UNCHANGED <<webhooks,
                   campaign, now, targets, numbers, suppressions, messages,
                   events, tasks, carrier, inbound, callbacks>>

Tick ==
    /\ now < MaxTime
    /\ now' = now + 1
    /\ UNCHANGED <<webhooks, campaign,
                   targets, numbers, templates, suppressions, messages,
                   events, tasks, carrier, inbound, callbacks>>

\* time passes until a retried task is due
WaitForEta ==
    /\ \E i \in DOMAIN tasks :
          /\ tasks[i].pc = "pending"
          /\ tasks[i].eta > now
          /\ now' = tasks[i].eta
    /\ UNCHANGED <<webhooks, campaign,
                   targets, numbers, templates, suppressions, messages,
                   events, tasks, carrier, inbound, callbacks>>

(***************************************************************************)
(* Inbound messages.  The worker path is process_inbound_message           *)
(* (message_tasks.py 200-259) with ComplianceService.process_stop_keyword  *)
(* and add_to_suppression, split between the SELECT of get_active_opt_out  *)
(* and the INSERT; the HTTP path is twilio_inbound_message (webhooks.py).  *)
(* A record of `inbound` keeps the message, where its processing stands    *)
(* and what it did: stop / help (how it was classified), added (a          *)
(* suppression row was inserted), active_after (an active opt-out for the  *)
(* sender existed when processing ended).                                  *)
(***************************************************************************)
KnownTo == "+15125550100"       \* a PhoneNumber row of the organization
UnknownTo == "+15125550199"     \* no PhoneNumber row
Senders == {"+15125550111"}

ActiveOptOut(phone) ==
    \E k \in DOMAIN suppressions :
        /\ suppressions[k].is_active
        /\ suppressions[k].reason = "opt_out"
        /\ _normalize_phone_number(suppressions[k].phone_number)
              = _normalize_phone_number(phone)

process_stop_keyword(message_content) ==
    service_matches(service_stop_keywords, message_content)

process_help_keyword(message_content) ==
    service_matches(service_help_keywords, message_content)

\* ComplianceService.log_audit_event: the row it adds to audit_events
log_audit_event(event_type, phone_number) ==
    [event_type |-> event_type, phone_number |-> phone_number]

\* the audit rows the two keyword checks add for one inbound message
stop_audit(phone_number) ==
    <<log_audit_event("opt_out_processed", phone_number)>>

help_audit(phone_number, message_content) ==
    IF process_help_keyword(message_content)
    THEN <<log_audit_event("help_requested", phone_number)>>
    ELSE <<>>

\* the webhook task hands the message to process_inbound_message.delay
InboundReceive(from, to, body) ==
    /\ Len(inbound) < MaxInbound
    /\ inbound' = Append(inbound,
          [path |-> "worker", from_number |-> from, to_number |-> to,
           body |-> body, pc |-> "pending", result |-> "none",
           stop |-> FALSE, help |-> FALSE, added |-> FALSE,
           active_after |-> FALSE, audit |-> <<>>])
    /\ UNCHANGED <<webhooks, campaign,
                   now, targets, numbers, templates, suppressions, messages,
                   events, tasks, carrier, callbacks>>

\* lines 205-222 and add_to_suppression up to its SELECT
InboundStart(j) ==
    /\ j \in DOMAIN inbound
    /\ inbound[j].pc = "pending"
    /\ LET r == inbound[j]
           phone_record == {n \in NumberIds : NumberE164[n] = r.to_number}
           existing == get_active_opt_out(r.from_number, OrgId)
       IN inbound' =
            IF phone_record = {}
            THEN [inbound EXCEPT ![j].pc = "done", ![j].result = "not_found",
                                 ![j].active_after = ActiveOptOut(r.from_number)]
            ELSE IF ~process_stop_keyword(r.body)
            THEN [inbound EXCEPT ![j].pc = "done", ![j].result = "processed",
                                 ![j].help = process_help_keyword(r.body),
                                 ![j].audit = help_audit(r.from_number, r.body),
                                 ![j].active_after = ActiveOptOut(r.from_number)]
            ELSE IF MultipleResultsFound(existing)
            THEN [inbound EXCEPT ![j].pc = "done", ![j].result = "error",
                                 ![j].stop = TRUE,
                                 ![j].active_after = ActiveOptOut(r.from_number)]
            ELSE IF existing # {}
            THEN [inbound EXCEPT ![j].pc = "done", ![j].result = "processed",
                                 ![j].stop = TRUE,
                                 ![j].help = process_help_keyword(r.body),
                                 ![j].audit =
                                    stop_audit(r.from_number)
                                       \o help_audit(r.from_number, r.body),
                                 ![j].active_after = ActiveOptOut(r.from_number)]
            ELSE [inbound EXCEPT ![j].pc = "insert", ![j].stop = TRUE]
    /\ UNCHANGED <<webhooks, campaign,
                   now, targets, numbers, templates, suppressions, messages,
                   events, tasks, carrier, callbacks>>

\* add_to_suppression from its INSERT on, and lines 224-256
InboundInsert(j) ==
    /\ j \in DOMAIN inbound
    /\ inbound[j].pc = "insert"
    /\ Len(suppressions) < MaxSupp
    /\ suppressions' = Append(suppressions,
          new_suppression(inbound[j].from_number, OrgId, "keyword"))
    /\ inbound' = [inbound EXCEPT ![j].pc = "done", ![j].result = "processed",
                                  ![j].added = TRUE,
                                  ![j].help = process_help_keyword(inbound[j].body),
                                  ![j].audit =
                                     stop_audit(inbound[j].from_number)
                                        \o help_audit(inbound[j].from_number,
                                                      inbound[j].body),
                                  ![j].active_after = TRUE]
    /\ UNCHANGED <<webhooks, campaign,
                   now, targets, numbers, templates, messages, events, tasks,
                   carrier, callbacks>>

\* POST /webhooks/twilio/inbound
twilio_inbound_message(from_number, to_number, Body) ==
    LET body == Join(strip(Chars(Body)))
        is_stop == webhook_matches(webhook_stop_keywords, body)
        is_help == webhook_matches(webhook_help_keywords, body)
        existing == {k \in DOMAIN suppressions :
                        /\ suppressions[k].phone_number = from_number
                        /\ suppressions[k].reason = "opt_out"}
        insert == is_stop /\ existing = {}
        raised == is_stop /\ MultipleResultsFound(existing)
    IN /\ Len(inbound) < MaxInbound
       /\ from_number # "" /\ body # ""
       /\ insert => Len(suppressions) < MaxSupp
       /\ suppressions' =
             IF insert
             THEN Append(suppressions,
                         raw_suppression(from_number, "keyword", "opt_out"))
             ELSE suppressions
       /\ inbound' = Append(inbound,
             [path |-> "http", from_number |-> from_number,
              to_number |-> to_number, body |-> Body, pc |-> "done",
              result |-> IF raised THEN "error" ELSE "processed",
              stop |-> is_stop, help |-> ~is_stop /\ is_help,
              added |-> insert,
              active_after |-> insert \/ ActiveOptOut(from_number),
              audit |-> <<>>])
       /\ UNCHANGED <<webhooks, campaign,
                      now, targets, numbers, templates, messages, events,
                      tasks, carrier, callbacks>>

\* POST /compliance/opt-outs
add_opt_out(phoneNumber) ==
    /\ Len(suppressions) < MaxSupp
    /\ suppressions' = Append(suppressions,
                              raw_suppression(phoneNumber, "manual", "opt_out"))
    /\ UNCHANGED <<webhooks, campaign,
                   now, targets, numbers, templates, messages, events, tasks,
                   carrier, inbound, callbacks>>

\* DELETE /compliance/opt-outs/{opt_out_id}
remove_opt_out(opt_out_id) ==
    /\ opt_out_id \in DOMAIN suppressions
    /\ suppressions[opt_out_id].is_active
    /\ suppressions' = [suppressions EXCEPT ![opt_out_id].is_active = FALSE]
    /\ UNCHANGED <<webhooks, campaign,
                   now, targets, numbers, templates, messages, events, tasks,
                   carrier, inbound, callbacks>>

(***************************************************************************)
(* Carrier status callbacks: update_message_status (the worker path,       *)
(* message_tasks.py 279-344) and twilio_status_callback (the HTTP path,    *)
(* webhooks.py 103-142).  A record of `callbacks` keeps the callback and   *)
(* the statuses and the number of StatusEvent rows before and after it.    *)
(***************************************************************************)
CallbackStatuses == {"queued", "sent", "delivered", "undelivered", "failed"}

\* a callback without MessageSid; also provider_sid of an unsent Message
NoSid == 0

\* select(Message).where(Message.provider_sid == message_sid)
message_by_sid(message_sid) ==
    {m \in DOMAIN messages : messages[m].provider_sid = message_sid}

\* a handler that reports an unmatched MessageSid to the carrier
http_response_404(found) == IF found = {} THEN "404" ELSE "200"

\* webhooks.py:142: return {"status": "success"}, found or not
http_response(found) == "200"

\* message_tasks.py:290-291, 336-341: the task returns its result, it
\* never raises (line 343 catches every exception)
task_result(found) == IF found = {} THEN "error" ELSE "updated"

\* http_status is what the carrier is answered by the handler itself:
\* the worker path runs in a task and answers nothing
CallbackRecord(path, message_sid, status, found) ==
    LET m == CHOOSE x \in found : TRUE
        t == messages[m].campaign_target_id
    IN [path |-> path, sid |-> message_sid, status |-> status,
        found |-> found # {},
        http_status |-> IF path = "worker" THEN "none"
                        ELSE IF message_sid = NoSid THEN "400"
                        ELSE http_response(found),
        result |-> IF path = "worker" THEN task_result(found) ELSE "none",
        msg_before |-> IF found = {} THEN "none" ELSE messages[m].status,
        msg_after |-> IF found = {} THEN "none" ELSE messages'[m].status,
        tgt_before |-> IF found = {} THEN "none" ELSE targets[t].status,
        tgt_after |-> IF found = {} THEN "none" ELSE targets'[t].status,
        events_before |-> Len(events), events_after |-> Len(events')]

_update_message_status_async(message_sid, status) ==
    LET found == message_by_sid(message_sid)
        m == CHOOSE x \in found : TRUE
        t == messages[m].campaign_target_id
    IN /\ Len(callbacks) < MaxCallbacks
       /\ IF found = {}
          THEN UNCHANGED <<messages, events, targets>>
          ELSE /\ messages' = [messages EXCEPT ![m].status = status]
               /\ events' = Append(events,
                                   [message_id |-> m, status |-> status])
               /\ targets' =
                     IF /\ targets[t].status = "sent"
                        /\ status \in {"delivered", "undelivered", "failed"}
                     THEN [targets EXCEPT ![t].status = status]
                     ELSE targets
       /\ callbacks' = Append(callbacks,
             CallbackRecord("worker", message_sid, status, found))
       /\ UNCHANGED <<webhooks, campaign,
                      now, numbers, templates, suppressions, tasks, carrier,
                      inbound>>

\* a request without MessageSid is refused with HTTPException(400)
twilio_status_callback(message_sid, message_status) ==
    LET found == IF message_sid = NoSid THEN {}
                 ELSE message_by_sid(message_sid)
        m == CHOOSE x \in found : TRUE
    IN /\ Len(callbacks) < MaxCallbacks
       /\ IF found = {}
          THEN UNCHANGED <<messages, events>>
          ELSE /\ messages' = [messages EXCEPT ![m].status = message_status]
               /\ events' = Append(events,
                                   [message_id |-> m, status |-> message_status])
       /\ UNCHANGED targets
       /\ callbacks' = Append(callbacks,
             CallbackRecord("http", message_sid, message_status, found))
       /\ UNCHANGED <<webhooks, campaign,
                      now, numbers, templates, suppressions, tasks, carrier,
                      inbound>>

\* the Message rows the periodic sweep asks the carrier about when it runs
\* at time at
pending_messages(at) ==
    {m \in DOMAIN messages : /\ messages[m].status \in {"queued", "sent"}
                             /\ messages[m].created_at < at - SweepCutoff
                             /\ messages[m].provider_sid # NoSid}

\* the message_status_events rows of the sweep, in the order of the batch
RECURSIVE status_events(_, _)
status_events(updated, status_info) ==
    IF updated = {} THEN <<>>
    ELSE LET m == CHOOSE x \in updated : \A y \in updated : x <= y
         IN <<[message_id |-> m, status |-> status_info[m]]>>
               \o status_events(updated \ {m}, status_info)

\* the next run of the beat schedule
next_beat == ((now \div SweepPeriod) + 1) * SweepPeriod

\* update_pending_message_statuses, run by the beat scheduler at its next
\* period: status_info is what the carrier answers for each pending Message
\* (a failed request leaves the row as it is)
_update_pending_message_statuses_async ==
    /\ next_beat <= MaxBeats * SweepPeriod
    /\ now' = next_beat
    /\ \E status_info \in [pending_messages(next_beat) -> CallbackStatuses] :
          LET updated == {m \in pending_messages(next_beat) :
                             status_info[m] # messages[m].status}
          IN /\ messages' = [m \in DOMAIN messages |->
                                IF m \in updated
                                THEN [messages[m] EXCEPT
                                         !.status = status_info[m]]
                                ELSE messages[m]]
             /\ events' = events \o status_events(updated, status_info)
    /\ UNCHANGED <<webhooks,
                   campaign, targets, numbers, templates, suppressions,
                   tasks, carrier, inbound, callbacks>>

\* the sids the carrier has issued: it reports on no other
IssuedSids == {c \in DOMAIN carrier : carrier[c].outcome = "accepted"}

(***************************************************************************)
(* Initial state: the campaign's targets are queued, nothing was sent.     *)
(***************************************************************************)
Init ==
    /\ campaign = [status |-> "active"]
    /\ now = 0
    /\ targets = [t \in TargetIds |->
                     [phone_number |-> DestPhone[t], status |-> "queued",
                      max_retries |-> TargetMaxRetries]]
    /\ \E mps \in 1..MaxMps :
          numbers = [n \in NumberIds |->
                        [organization_id |-> OrgId, status |-> "active",
                         health_score |-> 100, mps |-> mps,
                         daily_limit |-> NoLimit, current_daily_count |-> 0,
                         last_used_at |-> -1]]
    /\ templates = [x \in TemplateIds |->
                        TemplateRow(OrgId, template_category, TRUE)]
    /\ suppressions = <<>>
    /\ messages = <<>>
    /\ events = <<>>
    /\ tasks = <<>>
    /\ carrier = <<>>
    /\ inbound = <<>>
    /\ callbacks = <<>>
    /\ webhooks = <<>>

(***************************************************************************)
(* Webhook tasks: process_twilio_webhook and retry_failed_webhooks.  A     *)
(* record of webhooks is one process_twilio_webhook task; once the task    *)
(* has run (pc = "done") the record also holds the WebhookLog row the run  *)
(* created.  retry_of is history: the row whose retry enqueued the task,   *)
(* 0 for a request of the carrier.                                         *)
(***************************************************************************)
WebhookTypes == {"message_status", "inbound_message", "unknown"}
NoUrl == ""                                  \* webhook_url="" of a retry
WebhookUrl == "https://example.test/webhooks/twilio"

NewWebhook(webhook_type, signed, webhook_url, retry_of) ==
    [webhook_type |-> webhook_type, signed |-> signed,
     webhook_url |-> webhook_url, retry_of |-> retry_of, pc |-> "pending",
     processed |-> FALSE, error_message |-> "NULL", created_at |-> -1,
     result |-> "none"]

\* process_twilio_webhook.delay for a request of the carrier
WebhookReceive(webhook_type, signed) ==
    /\ Len(webhooks) < MaxWebhooks
    /\ webhooks' = Append(webhooks,
                          NewWebhook(webhook_type, signed, WebhookUrl, 0))
    /\ UNCHANGED <<campaign, now, targets, numbers, templates, suppressions,
                   messages, events, tasks, carrier, inbound, callbacks>>

\* RequestValidator.validate: the signature is an HMAC over the URL the
\* carrier called and the parameters, so it never matches another URL;
\* genuine says whether the request was signed with the account's token
validate_webhook_signature(webhook_url, genuine) ==
    webhook_url = WebhookUrl /\ genuine

\* the result of the handler _determine_webhook_type selects
webhook_result(webhook_type) ==
    IF webhook_type = "unknown" THEN "ignored" ELSE "processed"

\* _process_twilio_webhook_async: raised says whether the handler raised
\* (the broker refused the task it hands the payload to)
_process_twilio_webhook_async(w, genuine, raised) ==
    /\ w \in DOMAIN webhooks
    /\ webhooks[w].pc = "pending"
    /\ LET r == [webhooks[w] EXCEPT !.pc = "done", !.created_at = now]
       IN webhooks' = [webhooks EXCEPT ![w] =
             IF r.signed /\ ~validate_webhook_signature(r.webhook_url, genuine)
             THEN [r EXCEPT !.error_message = "Invalid webhook signature",
                            !.result = "error"]
             ELSE IF raised /\ r.webhook_type # "unknown"
             THEN [r EXCEPT !.error_message = "Exception",
                            !.result = "error"]
             ELSE [r EXCEPT !.processed = TRUE,
                            !.result = webhook_result(r.webhook_type)]]
    /\ UNCHANGED <<campaign, now, targets, numbers, templates, suppressions,
                   messages, events, tasks, carrier, inbound, callbacks>>

\* the WebhookLog rows retry_failed_webhooks selects
failed_webhooks ==
    {w \in DOMAIN webhooks : /\ webhooks[w].pc = "done"
                             /\ ~webhooks[w].processed
                             /\ webhooks[w].error_message # "NULL"
                             /\ webhooks[w].created_at >= now - RetryMaxAge}

\* the tasks the retry enqueues for the rows of S, in the order of the batch
RECURSIVE retried(_)
retried(S) ==
    IF S = {} THEN <<>>
    ELSE LET w == CHOOSE x \in S : \A y \in S : x <= y
         IN <<NewWebhook(webhooks[w].webhook_type, webhooks[w].signed,
                         NoUrl, w)>> \o retried(S \ {w})

\* _retry_failed_webhooks_async
_retry_failed_webhooks_async ==
    /\ failed_webhooks # {}
    /\ Len(webhooks) + Cardinality(failed_webhooks) <= MaxWebhooks
    /\ webhooks' = webhooks \o retried(failed_webhooks)
    /\ UNCHANGED <<campaign, now, targets, numbers, templates, suppressions,
                   messages, events, tasks, carrier, inbound, callbacks>>

NextWebhooks ==
    \/ \E webhook_type \in WebhookTypes, signed \in BOOLEAN :
          WebhookReceive(webhook_type, signed)
    \/ \E w \in 1..MaxWebhooks, genuine \in BOOLEAN, raised \in BOOLEAN :
          _process_twilio_webhook_async(w, genuine, raised)
    \/ _retry_failed_webhooks_async

SpecWebhooks == Init /\ [][NextWebhooks]_vars

\* the dispatch of the targets T
Dispatch(T) ==
    \/ \E t \in T : EnqueueDispatch(t)
    \/ \E i \in 1..MaxTasks : StartAttempt(i)
    \/ \E i \in 1..MaxTasks : CreateMessage(i)
    \/ \E i \in 1..MaxTasks : CarrierAccepts(i)
    \/ \E i \in 1..MaxTasks : CarrierFails(i)
    \/ \E i \in 1..MaxTasks : PersistSent(i)

(***************************************************************************)
(* Spec: the campaign's targets, each dispatched by one task and the       *)
(* retries that task asks for, on a running clock.                         *)
(***************************************************************************)
Next == Dispatch(TargetIds) \/ Tick \/ WaitForEta

Spec == Init /\ [][Next]_vars

\* the broker hands every task to a worker and the worker runs it
SpecFair == Spec /\ WF_vars(Next)

(***************************************************************************)
(* SpecRedeliver: one target, whose task the broker may deliver twice.     *)
(***************************************************************************)
NextRedeliver ==
    \/ Dispatch({"t1"})
    \/ \E i \in 1..MaxTasks : Redeliver(i)
    \/ Tick

SpecRedeliver == Init /\ [][NextRedeliver]_vars

(***************************************************************************)
(* SpecCompliance: the dispatch of one target while its number opts out:   *)
(* STOP replies on both inbound paths and the manual opt-out API.          *)
(***************************************************************************)
NextCompliance ==
    \/ Dispatch({"t1"})
    \/ \E from \in Senders : InboundReceive(from, KnownTo, "STOP")
    \/ \E j \in 1..MaxInbound : InboundStart(j)
    \/ \E j \in 1..MaxInbound : InboundInsert(j)
    \/ \E from \in Senders : twilio_inbound_message(from, KnownTo, "STOP")
    \/ \E phone \in Senders : add_opt_out(phone)
    \/ \E k \in 1..MaxSupp : remove_opt_out(k)

SpecCompliance == Init /\ [][NextCompliance]_vars

(***************************************************************************)
(* SpecInbound: the compliance gate alone, on inbound bodies of every      *)
(* kind, over a suppression store that opt-outs and removals have shaped.  *)
(***************************************************************************)
Bodies ==
    {"stop", "Stop", "  STOP  ", "STOPALL",
     "please stop texting me, this is not helping", "HELP", "ok thanks"}

NextInbound ==
    \/ \E from \in Senders, to \in {KnownTo, UnknownTo}, body \in Bodies :
          InboundReceive(from, to, body)
    \/ \E j \in 1..MaxInbound : InboundStart(j)
    \/ \E j \in 1..MaxInbound : InboundInsert(j)
    \/ \E from \in Senders, body \in Bodies :
          twilio_inbound_message(from, KnownTo, body)
    \/ \E phone \in Senders : add_opt_out(phone)
    \/ \E k \in 1..MaxSupp : remove_opt_out(k)

SpecInbound == Init /\ [][NextInbound]_vars

(***************************************************************************)
(* SpecStatus: the dispatch of one target and the carrier's status         *)
(* callbacks for its message, in any order and on either path.             *)
(***************************************************************************)
NextStatus ==
    \/ Dispatch({"t1"})
    \/ \E sid \in IssuedSids, status \in CallbackStatuses :
          _update_message_status_async(sid, status)
    \/ \E sid \in IssuedSids \cup {NoSid}, status \in CallbackStatuses :
          twilio_status_callback(sid, status)

SpecStatus == Init /\ [][NextStatus]_vars

\* the worker runs every task it has been handed; the carrier is free to
\* report or not
SpecStatusFair == SpecStatus /\ WF_vars(Dispatch({"t1"}))

\* SpecSweep: the same, with the periodic sweep of pending messages
NextSweep ==
    \/ NextStatus
    \/ _update_pending_message_statuses_async

SpecSweep == Init /\ [][NextSweep]_vars

(***************************************************************************)
(* SpecCrash: one target, whose worker may die during the send; the broker *)
(* then delivers the task again.                                           *)
(***************************************************************************)
NextCrash ==
    \/ Dispatch({"t1"})
    \/ \E i \in 1..MaxTasks : WorkerCrash(i)
    \/ \E i \in 1..MaxTasks : RedeliverLost(i)
    \/ Tick

SpecCrash == Init /\ [][NextCrash]_vars

(***************************************************************************)
(* SpecCampaign: the dispatch of the targets while the campaign is paused, *)
(* stopped and resumed.                                                    *)
(***************************************************************************)
NextCampaign ==
    \/ Dispatch(TargetIds)
    \/ pause_campaign
    \/ stop_campaign
    \/ resume_campaign

SpecCampaign == Init /\ [][NextCampaign]_vars

(***************************************************************************)
(* SpecDaily: the dispatch of the targets while the daily cap of the       *)
(* sending number is set through the settings API.                         *)
(***************************************************************************)
DailyLimits == {0, 1}

NextDaily ==
    \/ Dispatch(TargetIds)
    \/ \E n \in NumberIds, daily_limit \in DailyLimits :
          update_number_settings(n, daily_limit)
    \/ Tick

SpecDaily == Init /\ [][NextDaily]_vars

(***************************************************************************)
(* SpecPool: the dispatch of the targets from a pool of two numbers of any *)
(* health and status, used before or not.                                  *)
(***************************************************************************)
HealthScores == {50, 60, 70}
NumberStatuses == {"active", "suspended"}

InitPool ==
    /\ campaign = [status |-> "active"]
    /\ now = 0
    /\ targets = [t \in TargetIds |->
                     [phone_number |-> DestPhone[t], status |-> "queued",
                      max_retries |-> TargetMaxRetries]]
    /\ numbers \in [PoolNumberIds ->
                       [organization_id : {OrgId}, status : NumberStatuses,
                        health_score : HealthScores, mps : {MaxMps},
                        daily_limit : {NoLimit}, current_daily_count : {0},
                        last_used_at : {-1, 0}]]
    /\ templates = [x \in TemplateIds |->
                        TemplateRow(OrgId, template_category, TRUE)]
    /\ suppressions = <<>>
    /\ messages = <<>>
    /\ events = <<>>
    /\ tasks = <<>>
    /\ carrier = <<>>
    /\ inbound = <<>>
    /\ callbacks = <<>>
    /\ webhooks = <<>>

NextPool == Dispatch(TargetIds) \/ Tick

SpecPool == InitPool /\ [][NextPool]_vars

\* the template library: two templates, each usable by the campaign or
\* not (inactive, of another category, of another organization), used by
\* sends and by usage tracking, all within one second of the clock
OtherOrg == "org2"
OtherCategory == "followup"
TemplateRows ==
    {TemplateRow(OrgId, template_category, TRUE),
     TemplateRow(OrgId, template_category, FALSE),
     TemplateRow(OrgId, OtherCategory, TRUE),
     TemplateRow(OtherOrg, template_category, TRUE)}
TemplatePoolIds == {"tpl1", "tpl2"}

InitTemplates ==
    /\ campaign = [status |-> "active"]
    /\ now = 0
    /\ targets = [t \in TargetIds |->
                     [phone_number |-> DestPhone[t], status |-> "queued",
                      max_retries |-> TargetMaxRetries]]
    /\ numbers = [n \in NumberIds |->
                     [organization_id |-> OrgId, status |-> "active",
                      health_score |-> 100, mps |-> MaxMps,
                      daily_limit |-> NoLimit, current_daily_count |-> 0,
                      last_used_at |-> -1]]
    /\ templates \in [TemplatePoolIds -> TemplateRows]
    /\ suppressions = <<>>
    /\ messages = <<>>
    /\ events = <<>>
    /\ tasks = <<>>
    /\ carrier = <<>>
    /\ inbound = <<>>
    /\ callbacks = <<>>
    /\ webhooks = <<>>

NextTemplates ==
    \/ Dispatch(TargetIds)
    \/ \E x \in TemplatePoolIds : track_template_usage(x)

SpecTemplates == InitTemplates /\ [][NextTemplates]_vars

(***************************************************************************)
(* The claims.                                                             *)
(***************************************************************************)
Submissions(i) == {c \in DOMAIN carrier : carrier[c].task = i}

\* C1: an attempt that runs while an active suppression for the target's
\* number and organization exists, added after the task was enqueued, sets
\* the target to `suppressed`, submits nothing and creates no Message row.
C1_SuppressedAfterEnqueueIsBlocked ==
    \A i \in DOMAIN tasks :
        (/\ tasks[i].pc # "pending"
         /\ tasks[i].result # "skipped"
         /\ ~tasks[i].enq_org_supp
         /\ tasks[i].chk_org_supp)
        => /\ tasks[i].result = "suppressed"
           /\ targets[tasks[i].target].status = "suppressed"
           /\ tasks[i].message = 0
           /\ Submissions(i) = {}

\* C2: the worker submits nothing for a destination that had, at its
\* suppression check, an active suppression row of the target's
\* organization or of no organization (a global one, as the
\* /twilio/inbound STOP handler and the manual opt-out API store).
C2_NoSubmissionToSuppressedNumber ==
    \A c \in DOMAIN carrier : ~tasks[carrier[c].task].chk_any_supp

\* C3: for every sending number, the sends the carrier accepted from it
\* within one second never exceed its rate_limit_mps, also when several
\* workers run their rate-limit checks before any of them records a send.
C3_RateLimitHolds ==
    \A n \in NumberIds : \A s \in 0..now :
        Cardinality({c \in DOMAIN carrier :
                        /\ carrier[c].outcome = "accepted"
                        /\ carrier[c].from_number = NumberE164[n]
                        /\ carrier[c].at = s}) <= numbers[n].mps

\* C4: with rate_limit_mps = 1, an attempt deferred by the rate limit
\* leaves its target `queued` (until a later attempt sends it), is
\* rescheduled 60 / rate_limit_mps seconds later with its retry count not
\* incremented, and once every task of the target has ended the target
\* is `sent`.
C4_DeferredThenSent ==
    \A i \in DOMAIN tasks :
        (tasks[i].raised = "rate_limited" /\ \A n \in NumberIds : numbers[n].mps = 1)
        => LET t == tasks[i].target
           IN /\ targets[t].status \in {"queued", "sent"}
              /\ \E j \in DOMAIN tasks :
                    /\ j # i
                    /\ tasks[j].target = t
                    /\ tasks[j].retries = tasks[i].retries
                    /\ tasks[j].eta = tasks[i].ran_at + RateSpread
              /\ (\A j \in DOMAIN tasks :
                     tasks[j].target = t => tasks[j].pc = "done")
                 => targets[t].status = "sent"

\* C5: once a target is `suppressed`, `sent` or `failed`, no step of the
\* dispatch worker (a retried or redelivered task included) changes its
\* status.
C5_TerminalStatusIsKept ==
    [][\A t \in TargetIds :
          targets[t].status \in {"suppressed", "sent", "failed"}
          => targets'[t].status = targets[t].status]_vars

\* C6: while every submission for a target fails, each of the first
\* max_retries failures keeps the target non-terminal and reschedules it
\* with retry count + 1 after 60 * 2^retry_count seconds; only failure
\* number max_retries + 1 makes the target `failed`; a failed submission
\* never leaves the target or its Message `sent`.
C6_FailedSubmissionIsRetried ==
    \A t \in TargetIds :
        LET subs == {c \in DOMAIN carrier : carrier[c].target = t}
        IN (subs # {} /\ \A c \in subs : carrier[c].outcome # "accepted")
           => /\ Cardinality(subs) <= targets[t].max_retries + 1
              /\ Cardinality(subs) <= targets[t].max_retries
                    => targets[t].status # "failed"
              /\ targets[t].status # "sent"
              /\ \A c \in subs :
                    LET i == carrier[c].task
                    IN /\ messages[tasks[i].message].status # "sent"
                       /\ tasks[i].retries < targets[t].max_retries
                          => \E j \in DOMAIN tasks :
                                /\ tasks[j].target = t
                                /\ tasks[j].retries = tasks[i].retries + 1
                                /\ tasks[j].eta =
                                      carrier[c].at
                                      + BackoffBase * (2 ^ tasks[i].retries)

\* the carrier's lifecycle: queued -> sent -> delivered, and any state ->
\* failed / undelivered
LifecycleRank(status) ==
    CASE status = "queued" -> 0
      [] status = "sent" -> 1
      [] status = "delivered" -> 2
      [] OTHER -> 3

ForwardProgress(old, new) ==
    \/ new \in {"failed", "undelivered"}
    \/ LifecycleRank(old) < LifecycleRank(new)

\* C7: a status callback changes the Message's status only when the new
\* status is forward progress in the carrier lifecycle; a callback that
\* carries an earlier status leaves the stored status unchanged.
C7_StatusNeverRegresses ==
    \A k \in DOMAIN callbacks :
        (/\ callbacks[k].found
         /\ ~ForwardProgress(callbacks[k].msg_before, callbacks[k].status))
        => callbacks[k].msg_after = callbacks[k].msg_before

\* C8: the same terminal status callback delivered twice in a row for a
\* `sent` Message of a `sent` target makes one status transition of the
\* Message and one of the target, both at the first delivery, and appends
\* two StatusEvent rows; the second delivery changes nothing else.
C8_CallbackTwiceIsOneTransition ==
    \A k \in DOMAIN callbacks :
        (/\ k + 1 \in DOMAIN callbacks
         /\ callbacks[k].found
         /\ callbacks[k + 1].path = callbacks[k].path
         /\ callbacks[k + 1].sid = callbacks[k].sid
         /\ callbacks[k + 1].status = callbacks[k].status
         /\ callbacks[k].status \in TerminalCarrierStatuses
         /\ callbacks[k].msg_before = "sent"
         /\ callbacks[k].tgt_before = "sent")
        => /\ callbacks[k].msg_after = callbacks[k].status
           /\ callbacks[k].tgt_after = callbacks[k].status
           /\ callbacks[k + 1].msg_after = callbacks[k + 1].msg_before
           /\ callbacks[k + 1].tgt_after = callbacks[k + 1].tgt_before
           /\ callbacks[k + 1].events_after = callbacks[k].events_before + 2

\* the body, trimmed and case-folded, is exactly one of the keywords
ExactKeyword(keywords, body) ==
    LET b == strip(lower(Chars(body)))
    IN \E kw \in keywords : b = Chars(kw)

\* every STOP keyword either inbound path knows
AnyStopKeyword == service_stop_keywords \cup webhook_stop_keywords

\* C9: on both inbound paths a body is classified as an opt-out if and
\* only if its trimmed, case-folded text is exactly a STOP keyword; a
\* longer body that only contains a keyword adds no suppression.
C9_StopIsExactMatch ==
    \A j \in DOMAIN inbound :
        (inbound[j].pc # "pending" /\ inbound[j].result # "not_found")
        => LET exact == ExactKeyword(AnyStopKeyword, inbound[j].body)
           IN /\ inbound[j].stop <=> exact
              /\ ~exact => ~inbound[j].added

\* C10: after an inbound message whose body is a STOP keyword has been
\* processed, an active opt-out suppression for the sender exists,
\* whatever the store held before and whether or not the receiving number
\* is a known PhoneNumber.
C10_StopLeavesActiveOptOut ==
    \A j \in DOMAIN inbound :
        (/\ inbound[j].pc = "done"
         /\ ExactKeyword(AnyStopKeyword, inbound[j].body))
        => inbound[j].active_after

\* C11: processing an inbound message that is classified as HELP adds no
\* Suppression record (and the inbound paths activate or deactivate none),
\* on both inbound paths and for every body the HELP classifier accepts.
C11_HelpLeavesSuppressionsUnchanged ==
    \A j \in DOMAIN inbound :
        (inbound[j].pc = "done" /\ inbound[j].help) => ~inbound[j].added

\* C12: after any interleaving of add_to_suppression calls for one number
\* and organization, at most one active Suppression row exists for that
\* (number, organization), so that is_suppressed answers instead of
\* failing on duplicate rows.
C12_AddIsIdempotent ==
    \A phone \in Senders :
        Cardinality(_active_rows(phone, OrgId)) <= 1

\* the numbers of a pool that the selection is to choose from: status
\* `active` and health score at or above the floor of 70
HealthyNumbers(pool) ==
    {n \in DOMAIN pool :
        /\ pool[n].status = "active"
        /\ pool[n].health_score >= HealthyFloor}

\* C13: the number a dispatch attempt selected is `active` and has a
\* health score of at least 70; a number with a health score between 51
\* and 69 is never used for a send.
C13_SelectedNumberIsHealthy ==
    \A i \in DOMAIN tasks :
        tasks[i].from_number # "none"
        => tasks[i].from_number \in HealthyNumbers(tasks[i].pool)

\* C14: the number a dispatch attempt selected is the least recently used
\* of the pool's eligible numbers (never used before any used one,
\* otherwise the oldest last_used_at), and a successful send advances the
\* chosen number's last_used_at.
C14_SelectedNumberIsLeastRecentlyUsed ==
    \A i \in DOMAIN tasks :
        LET pool == tasks[i].pool
            n == tasks[i].from_number
        IN (n # "none" /\ HealthyNumbers(pool) # {})
           => /\ \E o \in HealthyNumbers(pool) :
                    /\ n = o
                    /\ \A x \in HealthyNumbers(pool) :
                          pool[o].last_used_at <= pool[x].last_used_at
              /\ tasks[i].result = "sent"
                    => numbers[n].last_used_at >= tasks[i].ran_at

\* an attempt is in flight from the moment it passed the checks of
\* StartAttempt until it has persisted its result
InFlight(i) == tasks[i].pc \in {"checked", "created", "accepted"}

\* C15: there are never two in-flight attempts for one target: of two
\* dispatch tasks for the same target that run concurrently, at most one
\* passes the `queued` check and goes on to the carrier submission.
C15_OneAttemptInFlight ==
    \A i, j \in DOMAIN tasks :
        (i # j /\ tasks[i].target = tasks[j].target)
        => ~(InFlight(i) /\ InFlight(j))

\* C16: when a worker dies after the carrier accepted its submission and
\* before the result was persisted, the redelivered task of that attempt
\* submits nothing more: the carrier gets at most one submission for the
\* attempt.
C16_NoSecondSubmissionAfterCrash ==
    \A i, j \in DOMAIN tasks :
        (/\ tasks[i].pc = "crashed"
         /\ tasks[i].sid # 0
         /\ j # i
         /\ tasks[j].target = tasks[i].target
         /\ tasks[j].retries = tasks[i].retries)
        => Submissions(j) = {}

\* C17: no target of a campaign is submitted to the carrier while the
\* campaign is paused or stopped, also when its dispatch task was enqueued
\* while the campaign was still active.
C17_NoSubmissionWhilePaused ==
    \A c \in DOMAIN carrier :
        tasks[carrier[c].task].enq_campaign = "active"
        => carrier[c].campaign_status \notin {"paused", "stopped", "completed"}

\* quiet hours (Organization.quiet_hours_start .. quiet_hours_end) begin at
\* second QuietFrom of the clock and last beyond its horizon
InQuietHours(time) == time >= QuietFrom

\* C18: an attempt that runs for a `queued` target during quiet hours
\* selects no number and submits nothing, and the carrier gets no
\* submission at a time inside quiet hours.
C18_NoSubmissionInQuietHours ==
    /\ \A c \in DOMAIN carrier : ~InQuietHours(carrier[c].at)
    /\ \A i \in DOMAIN tasks :
          (tasks[i].ran_at >= 0 /\ InQuietHours(tasks[i].ran_at))
          => tasks[i].from_number = "none" /\ Submissions(i) = {}

\* C19: every status callback handled for an existing Message, on either
\* path, gives a `sent` target the new status when that status is
\* `delivered`, `failed` or `undelivered`, and leaves every other target,
\* and the target under every other status, unchanged.
C19_TerminalStatusPropagates ==
    \A k \in DOMAIN callbacks :
        callbacks[k].found
        => callbacks[k].tgt_after =
              IF /\ callbacks[k].tgt_before = "sent"
                 /\ callbacks[k].status \in TerminalCarrierStatuses
              THEN callbacks[k].status
              ELSE callbacks[k].tgt_before

HttpErrors == {"400", "404", "500"}

\* the callback that this step handled, if it handled one
HandledCallback == callbacks'[Len(callbacks')]

\* C20: a status callback whose MessageSid matches no Message changes no
\* Message, no CampaignTarget and no StatusEvent, and its handler answers
\* the carrier with success, never with an HTTP error.
C20_UnmatchedCallbackIsDiscarded ==
    [][(/\ Len(callbacks') = Len(callbacks) + 1
        /\ HandledCallback.sid # NoSid
        /\ ~HandledCallback.found)
       => /\ messages' = messages
          /\ targets' = targets
          /\ events' = events
          /\ HandledCallback.http_status \notin HttpErrors
          /\ HandledCallback.path = "http"
                => HandledCallback.http_status = "200"]_vars

\* both handlers have discarded a callback for a sid that the carrier
\* issued and the worker has not stored yet
C20_Witness ==
    /\ \E k \in DOMAIN callbacks :
          /\ callbacks[k].path = "http"
          /\ callbacks[k].sid # NoSid
          /\ ~callbacks[k].found
          /\ callbacks[k].http_status = "200"
    /\ \E k \in DOMAIN callbacks :
          /\ callbacks[k].path = "worker"
          /\ ~callbacks[k].found
          /\ callbacks[k].result = "error"

\* C21: _can_send_now allows a send from a number if and only if fewer
\* than rate_limit_mps of its messages lie in the last second and its
\* daily cap is not reached; a number whose current daily count has
\* reached its daily limit is never allowed to send at once.
C21_CanSendNowRespectsBothLimits ==
    \A i \in DOMAIN tasks :
        tasks[i].rate_number # "none"
        => LET row == tasks[i].pool[tasks[i].rate_number]
           IN (tasks[i].from_number # "none")
              <=> (tasks[i].recent < row.mps /\ can_send_message(row))

\* no number of the pool passes the selection's filter (nor, a fortiori,
\* the floor of 70)
NoNumberEligible(pool) ==
    \A n \in DOMAIN pool :
        pool[n].status # "active" \/ pool[n].health_score <= HealthFloor

\* C22: an attempt that finds no eligible sending number is a retryable
\* failure: the target keeps a non-terminal status and the task is
\* scheduled again, later, with its retry count not increased.
C22_NoNumberIsRetryable ==
    \A i \in DOMAIN tasks :
        (tasks[i].ran_at >= 0 /\ NoNumberEligible(tasks[i].pool))
        => /\ targets[tasks[i].target].status
                 \notin {"failed", "suppressed", "sent"}
           /\ \E j \in DOMAIN tasks :
                 /\ j # i
                 /\ tasks[j].target = tasks[i].target
                 /\ tasks[j].retries = tasks[i].retries
                 /\ tasks[j].eta > tasks[i].ran_at

\* callback k found no Message, the worker has stored its sid since, and
\* the carrier has reported nothing on that sid after k
RacedCallback(k) ==
    /\ ~callbacks[k].found
    /\ callbacks[k].sid # NoSid
    /\ message_by_sid(callbacks[k].sid) # {}
    /\ \A l \in DOMAIN callbacks : l > k => callbacks[l].sid # callbacks[k].sid

\* the status callback k reported is what its Message shows, and what its
\* target shows if the status is terminal
Applied(k) ==
    \A m \in message_by_sid(callbacks[k].sid) :
        /\ messages[m].status = callbacks[k].status
        /\ callbacks[k].status \in TerminalCarrierStatuses
              => targets[messages[m].campaign_target_id].status
                    = callbacks[k].status

\* C23: a status callback that arrived before the worker stored the
\* carrier message id is not lost: it is retried and applied once the
\* Message carries the id, so in the end the Message and its target show
\* the reported status.
C23_RacedCallbackIsApplied ==
    <>[](\A k \in DOMAIN callbacks : RacedCallback(k) => Applied(k))

\* the templates of table snapshot pool that a send of the campaign may use
Candidates(pool) ==
    {x \in DOMAIN pool : /\ pool[x].organization_id = OrgId
                         /\ pool[x].category = template_category
                         /\ pool[x].is_active}

\* the tasks that got as far as selecting a template
Selected(i) == tasks[i].from_number # "none" /\ tasks[i].pc # "checked"

\* C24: template selection returns only an active template of the requested
\* organization and category, returns none only when no such template
\* exists, and among several returns the least recently used one, so that
\* sends followed by usage tracking rotate through the templates.
C24_SelectionIsLeastRecentlyUsed ==
    \A i \in DOMAIN tasks :
        Selected(i)
        => LET pool == tasks[i].tpl_pool
           IN IF tasks[i].message = 0
              THEN Candidates(pool) = {}
              ELSE LET tpl == messages[tasks[i].message].template_id
                   IN /\ tpl \in Candidates(pool)
                      /\ \A d \in Candidates(pool) :
                            pool[tpl].last_used_at <= pool[d].last_used_at

\* C25: after every successful submission the Message row is `sent` and
\* carries the carrier message id, the target is `sent`, the sending
\* number's last_used_at is advanced to the time of the send, and the usage
\* count of the template used is one more than before.
C25_SuccessfulSendIsRecorded ==
    [][\A i \in DOMAIN tasks :
          (tasks[i].result # "sent" /\ tasks'[i].result = "sent")
          => LET m == tasks[i].message
                 tpl == messages[m].template_id
             IN /\ messages'[m].status = "sent"
                /\ messages'[m].provider_sid = tasks[i].sid
                /\ targets'[tasks[i].target].status = "sent"
                /\ numbers'[tasks[i].from_number].last_used_at = now
                /\ templates'[tpl].usage_count
                      = templates[tpl].usage_count + 1]_vars

\* the classification an audit row of inbound message r has to carry
Classification(r) ==
    IF r.stop THEN {"opt_out_processed"}
    ELSE IF r.help THEN {"help_requested"}
    ELSE {"opt_out_processed", "help_requested"} \ {r.audit[1].event_type}

\* C26: every inbound message processed by the compliance gate, on either
\* inbound path and whether it is a STOP, a HELP or neither, appends exactly
\* one audit event, which records the sender's phone number and the
\* classification of the message.
C26_OneAuditEventPerInbound ==
    \A j \in DOMAIN inbound :
        (inbound[j].pc = "done" /\ inbound[j].result = "processed")
        => /\ Len(inbound[j].audit) = 1
           /\ inbound[j].audit[1].phone_number = inbound[j].from_number
           /\ inbound[j].audit[1].event_type \in Classification(inbound[j])

\* a dispatch task of target t has been enqueued
Enqueued(t) == \E i \in DOMAIN tasks : tasks[i].target = t

\* an attempt for target t ended in a deferral or a retry
Deferred(t) ==
    \E i \in DOMAIN tasks : tasks[i].target = t /\ tasks[i].result = "retry"

\* the carrier refused a submission for target t
CarrierRefused(t) ==
    \E c \in DOMAIN carrier :
        carrier[c].target = t /\ carrier[c].outcome # "accepted"

\* C27: under fair scheduling every target enqueued as `queued` eventually
\* leaves `queued`, and a target whose task was only deferred or retried
\* (rate limit, quiet hours, an exception with retries left) is eventually
\* sent, given an eligible number, an active template and a carrier that
\* accepts the message.
C27_DeferredTargetIsEventuallySent ==
    \A t \in TargetIds :
        /\ Enqueued(t) ~> (targets[t].status # "queued")
        /\ Deferred(t) ~> (targets[t].status = "sent" \/ CarrierRefused(t))

\* C28: the status of a CampaignTarget is always one of queued, sending,
\* sent, delivered, failed, suppressed and rescheduled; no step of the
\* worker and no callback writes any other value, such as `undelivered`.
C28_TargetStatusIsInItsSet ==
    \A t \in TargetIds : targets[t].status \in TargetStatuses

\* C29: whenever the Message of a campaign target has reached a terminal
\* carrier status, through a callback on either path or through the periodic
\* sweep of pending messages, its target is no longer `sent`.
C29_TerminalMessageMovesTarget ==
    \A m \in DOMAIN messages :
        messages[m].status \in TerminalCarrierStatuses
        => targets[messages[m].campaign_target_id].status # "sent"

\* the tasks that retry_failed_webhooks enqueued for WebhookLog row w
Redispatches(w) == {v \in DOMAIN webhooks : webhooks[v].retry_of = w}

\* C30: retrying failed webhooks converges: once retry_failed_webhooks has
\* dispatched a failed WebhookLog again, its later runs neither select nor
\* dispatch that log again.
C30_FailedWebhookIsRetriedOnce ==
    \A w \in DOMAIN webhooks : Cardinality(Redispatches(w)) <= 1

====
